---- MODULE Spec2Model ----
(***************************************************************************)
(* A model of the platform abstraction layer of rust-battery:              *)
(*   - battery/src/platform/traits.rs   the default derived metrics of     *)
(*     BatteryDevice (state_of_health, state_of_charge, time_to_full,      *)
(*     time_to_empty);                                                     *)
(*   - battery/src/types/manager.rs     the facade Manager, which holds    *)
(*     the backend manager in an Rc and hands a clone to every iterator;   *)
(*   - battery-ffi/src/manager.rs       the C boundary: battery_manager_new*)
(*     battery_manager_iter, battery_manager_free.                         *)
(*                                                                         *)
(* Quantities are kept as uom keeps them, in SI base units: Energy in      *)
(* joules, Power in watts, Time in seconds.  Quotients are exact rationals *)
(* (reduced fractions); the results of a floating point division by zero   *)
(* are the IEEE-754 special values NaN, +inf and -inf.  Rounding of f32 is *)
(* not modelled.                                                           *)
(***************************************************************************)
EXTENDS Integers, Sequences, FiniteSets, TLC

VARIABLES
    dev,        \* the Device snapshot the metrics are computed from
    soh,        \* result of the last state_of_health() call on dev
    soc,        \* result of the last state_of_charge() call on dev
    ttf,        \* result of the last time_to_full() call on dev
    tte,        \* result of the last time_to_empty() call on dev
    backend,    \* backend (platform) managers: Rc state and strong count
    manager,    \* facade Manager handles (Box<Manager>): the Rc they hold
    iter,       \* Batteries iterators: the Rc they hold, their cursor
    slot,       \* the last-error slot of every thread
    last,       \* the foreign call made last: operation, thread, argument, result
    aborted     \* the process has panicked (assert! in battery_manager_iter)

vars == <<dev, soh, soc, ttf, tte, backend, manager, iter, slot, last, aborted>>

metricVars == <<dev, soh, soc, ttf, tte>>
handleVars == <<backend, manager, iter, slot, last, aborted>>

----------------------------------------------------------------------------
(* Numbers: exact rationals and the IEEE special values.                   *)

Abs(x) == IF x < 0 THEN -x ELSE x

RECURSIVE Gcd(_, _)
Gcd(a, b) == IF b = 0 THEN a ELSE Gcd(b, a % b)

\* The rational n/d (d # 0), reduced, with a positive denominator.
Frac(n, d) ==
    LET g == Gcd(Abs(n), Abs(d))
        s == IF d < 0 THEN -1 ELSE 1
    IN  [kind |-> "fin", num |-> (s * n) \div g, den |-> (s * d) \div g]

NaN    == [kind |-> "nan", num |-> 0, den |-> 0]
PosInf == [kind |-> "inf", num |-> 1, den |-> 0]
NegInf == [kind |-> "inf", num |-> -1, den |-> 0]

\* a / b for two finite values held as integers, as a float division gives it:
\* x / 0 is an infinity of the sign of x, and 0 / 0 is NaN.
Div(a, b) ==
    IF b # 0 THEN Frac(a, b)
    ELSE IF a > 0 THEN PosInf
    ELSE IF a < 0 THEN NegInf
    ELSE NaN

\* x < k and x > k for an integer k; every comparison with NaN is false.
LessThan(x, k) ==
    CASE x.kind = "nan" -> FALSE
      [] x.kind = "inf" -> x.num < 0
      [] OTHER          -> x.num < k * x.den

GreaterThan(x, k) ==
    CASE x.kind = "nan" -> FALSE
      [] x.kind = "inf" -> x.num > 0
      [] OTHER          -> x.num > k * x.den

----------------------------------------------------------------------------
(* Units (uom): the base unit of Time is the second.                        *)

SecondsPerHour == 3600
HoursPerDay == 24

\* Energy::new::<watt_hour>(wh): the value in joules.
WattHour(wh) == wh * SecondsPerHour

\* Time::get::<hour>() and Time::get::<day>() of a time held in seconds.
get_hour(t) ==
    IF t.kind = "fin" THEN Frac(t.num, t.den * SecondsPerHour) ELSE t

get_day(t) ==
    IF t.kind = "fin" THEN Frac(t.num, t.den * SecondsPerHour * HoursPerDay) ELSE t

\* Bound::into_bounded for Ratio: the value forced into 0.0..=1.0.
into_bounded(r) ==
    IF LessThan(r, 0) THEN Frac(0, 1)
    ELSE IF GreaterThan(r, 1) THEN Frac(1, 1)
    ELSE r

----------------------------------------------------------------------------
(* BatteryDevice: the default derived metrics.                             *)

States == {"Unknown", "Charging", "Discharging", "Empty", "Full"}

None == [tag |-> "None"]
Some(v) == [tag |-> "Some", val |-> v]
NotCalled == [tag |-> "NotCalled"]

state_of_health(d) == into_bounded(Div(d.energy_full, d.energy_full_design))

state_of_charge(d) == into_bounded(Div(d.energy, d.energy_full))

\* "Ten hours for charging is too much", "Ten days for discharging is too much"
TooMuchHours == 10
TooMuchDays == 10

\* time_to_full with the ceiling test written >= : a result of exactly ten
\* hours is discarded.
time_to_full_discarding_ten(d) ==
    IF d.state = "Charging" /\ d.energy_rate # 0
    THEN LET value == d.energy_full - d.energy
         IN  IF value >= 0
             THEN LET time == Div(value, d.energy_rate)
                  IN  IF ~LessThan(get_hour(time), TooMuchHours)
                      THEN None
                      ELSE Some(time)
             ELSE None
    ELSE None

time_to_full(d) ==
    IF d.state = "Charging" /\ d.energy_rate # 0
    THEN LET value == d.energy_full - d.energy
         IN  IF value >= 0                       \* is_sign_positive
             THEN LET time == Div(value, d.energy_rate)
                  IN  IF GreaterThan(get_hour(time), TooMuchHours)
                      THEN None
                      ELSE Some(time)
             ELSE None
    ELSE None

\* time_to_empty with the ceiling read in hours instead of days.
time_to_empty_ceiling_in_hours(d) ==
    IF d.state = "Discharging" /\ d.energy_rate # 0
    THEN LET time == Div(d.energy, d.energy_rate)
         IN  IF GreaterThan(get_hour(time), TooMuchDays)
             THEN None
             ELSE Some(time)
    ELSE None

time_to_empty(d) ==
    IF d.state = "Discharging" /\ d.energy_rate # 0
    THEN LET time == Div(d.energy, d.energy_rate)
         IN  IF GreaterThan(get_day(time), TooMuchDays)
             THEN None
             ELSE Some(time)
    ELSE None

----------------------------------------------------------------------------
(* Device snapshots.  The readings straddle every branch of the metrics:   *)
(* negative, zero and positive energies, full below and above energy,      *)
(* quotients of exactly and of more than ten hours and ten days, and       *)
(* negative, zero and positive rates.                                      *)

EnergyReadings == {WattHour(wh) : wh \in {-20, 0, 20, 40, 50, 480, 482}}
RateReadings == {-5, -2, 0, 2, 5}

Devices ==
    [energy : EnergyReadings, energy_full : EnergyReadings,
     energy_full_design : EnergyReadings, energy_rate : RateReadings,
     state : States]

----------------------------------------------------------------------------
(* Handles, threads and errors.                                            *)

MaxManagers == 2     \* Manager handles ever created
MaxIterators == 2    \* Batteries iterators ever created
MaxBatteries == 2    \* batteries one enumeration can yield

Null == 0
ManagerIds == 1..MaxManagers
IteratorIds == 1..MaxIterators

Threads == {"A", "B"}
Errors == {"InitializationError", "EnumerationError"}

\* The error a failed call made by thread t leaves behind, and the empty slot.
Message(t, e) == [by |-> t, error |-> e]
NoError == [by |-> "nobody", error |-> "none"]

\* A foreign call as its caller saw it: the operation, the calling thread, the
\* handle passed, the error the facade call underneath returned ("none" when
\* it returned Ok, or when there is none), the handle returned, and the
\* message returned.
Call(op, t, arg, err, ret, msg) ==
    [op |-> op, thread |-> t, arg |-> arg, err |-> err, ret |-> ret, msg |-> msg]

----------------------------------------------------------------------------
(* Rc<PlatformManager>: the strong count, and the value being destroyed    *)
(* when the last reference goes.                                           *)

NoBackend == [state |-> "none", strong |-> 0]

Rc_new(bk, b) == [bk EXCEPT ![b] = [state |-> "alive", strong |-> 1]]

Rc_clone(bk, b) == [bk EXCEPT ![b].strong = @ + 1]

Rc_drop(bk, b) ==
    IF bk[b].strong = 1
    THEN [bk EXCEPT ![b] = [state |-> "dropped", strong |-> 0]]
    ELSE [bk EXCEPT ![b].strong = @ - 1]

----------------------------------------------------------------------------
(* The facade: Manager and the Batteries iterator it spawns.  A step of    *)
(* the facade changes backend, manager and iter only.                      *)

NoManager == [state |-> "unused", inner |-> Null]
FreedManager == [state |-> "freed", inner |-> Null]
NoIterator == [state |-> "unused", manager |-> Null, pos |-> 0, len |-> 0]
FreedIterator == [state |-> "freed", manager |-> Null, pos |-> 0, len |-> 0]

LiveManagers == {h \in ManagerIds : manager[h].state = "live"}
LiveIterators == {i \in IteratorIds : iter[i].state = "live"}

\* A new value (a new Box at the boundary) never takes the place of one in use.
UnusedManagers == {h \in ManagerIds : manager[h].state = "unused"}
UnusedIterators == {i \in IteratorIds : iter[i].state = "unused"}
NewManagerHandle == CHOOSE h \in UnusedManagers : \A g \in UnusedManagers : h <= g
NewIteratorHandle == CHOOSE i \in UnusedIterators : \A j \in UnusedIterators : i <= j

\* Manager::new(), PlatformManager::new() returning Ok: the backend manager
\* goes into a new Rc, held by the new Manager.
Manager_new_Ok ==
    /\ UnusedManagers # {}
    /\ LET h == NewManagerHandle
       IN  /\ backend' = Rc_new(backend, h)
           /\ manager' = [manager EXCEPT ![h] = [state |-> "live", inner |-> h]]
    /\ UNCHANGED iter

\* Manager::new(), PlatformManager::new() returning Err: the ? returns it.
Manager_new_Err == UNCHANGED <<backend, manager, iter>>

\* BatteryIterator::new(manager): the iterator stores the Rc it is given and
\* starts before the first of the n batteries its enumeration found.
BatteryIterator_new(b, n) ==
    [state |-> "live", manager |-> b, pos |-> 0, len |-> n]

\* Manager::batteries() handing the iterator a reference that is not counted.
Manager_batteries_Ok_uncounted(h, n) ==
    /\ UnusedIterators # {}
    /\ iter' = [iter EXCEPT ![NewIteratorHandle] = BatteryIterator_new(manager[h].inner, n)]
    /\ UNCHANGED <<backend, manager>>

\* Manager::batteries() starting the enumeration afresh for every iterator of
\* the Manager, as if the cursor were kept with the shared backend manager.
Manager_batteries_Ok_shared_cursor(h, n) ==
    /\ UnusedIterators # {}
    /\ LET b == manager[h].inner
           new == NewIteratorHandle
       IN  /\ backend' = Rc_clone(backend, b)
           /\ iter' = [i \in IteratorIds |->
                         IF i = new THEN BatteryIterator_new(b, n)
                         ELSE IF iter[i].state = "live" /\ iter[i].manager = b
                              THEN [iter[i] EXCEPT !.pos = 0]
                              ELSE iter[i]]
    /\ UNCHANGED manager

\* Manager::batteries() on Manager h, PlatformIterator::new returning Ok:
\* the iterator is built from self.inner.clone().
Manager_batteries_Ok(h, n) ==
    /\ UnusedIterators # {}
    /\ LET b == manager[h].inner
       IN  /\ backend' = Rc_clone(backend, b)
           /\ iter' = [iter EXCEPT ![NewIteratorHandle] = BatteryIterator_new(b, n)]
    /\ UNCHANGED manager

\* Manager::batteries() on Manager h, PlatformIterator::new returning Err:
\* the clone it was given is dropped with the call.
Manager_batteries_Err(h) ==
    /\ backend' = Rc_drop(Rc_clone(backend, manager[h].inner), manager[h].inner)
    /\ UNCHANGED <<manager, iter>>

\* A Manager dropped that destroys the backend manager outright, whoever else
\* holds it.
drop_Manager_destroying(h) ==
    /\ backend' = [backend EXCEPT ![manager[h].inner] = [state |-> "dropped", strong |-> 0]]
    /\ manager' = [manager EXCEPT ![h] = FreedManager]
    /\ UNCHANGED iter

\* A Manager dropped: its Rc goes with it.
drop_Manager(h) ==
    /\ backend' = Rc_drop(backend, manager[h].inner)
    /\ manager' = [manager EXCEPT ![h] = FreedManager]
    /\ UNCHANGED iter

\* An iterator dropped: the Rc it stored goes with it.
drop_Batteries(i) ==
    /\ backend' = Rc_drop(backend, iter[i].manager)
    /\ iter' = [iter EXCEPT ![i] = FreedIterator]
    /\ UNCHANGED manager

\* Iterator::next() on iterator i: the next battery, or None at the end.
Batteries_next(i) ==
    /\ iter' = IF iter[i].pos < iter[i].len
               THEN [iter EXCEPT ![i].pos = @ + 1]
               ELSE iter
    /\ UNCHANGED <<backend, manager>>

\* set_last_error writing one slot that every thread shares.
set_last_error_shared(sl, t, e) == [u \in Threads |-> Message(t, e)]

\* crate::errors::set_last_error(e), called on thread t.
set_last_error(sl, t, e) == [sl EXCEPT ![t] = Message(t, e)]

----------------------------------------------------------------------------
(* The foreign boundary.  Callers follow the handle protocol: a handle is  *)
(* passed only while it is live (or is null), and a call runs to           *)
(* completion before the next one starts.                                  *)

\* battery_manager_new() clearing the caller's slot when it succeeds.
manager_new_ok_clearing(t) ==
    /\ Manager_new_Ok
    /\ last' = Call("battery_manager_new", t, Null, "none", NewManagerHandle, NoError)
    /\ slot' = [slot EXCEPT ![t] = NoError]

\* battery_manager_new() on thread t, Manager::new() returning Ok.
manager_new_ok(t) ==
    /\ Manager_new_Ok
    /\ last' = Call("battery_manager_new", t, Null, "none", NewManagerHandle, NoError)
    /\ UNCHANGED slot

\* battery_manager_new() returning NULL without recording the error.
manager_new_err_unrecorded(t, e) ==
    /\ Manager_new_Err
    /\ last' = Call("battery_manager_new", t, Null, e, Null, NoError)
    /\ UNCHANGED slot

\* battery_manager_new() on thread t, Manager::new() returning Err(e).
manager_new_err(t, e) ==
    /\ Manager_new_Err
    /\ slot' = set_last_error(slot, t, e)
    /\ last' = Call("battery_manager_new", t, Null, e, Null, NoError)

battery_manager_new(t) ==
    /\ ~aborted
    /\ \/ manager_new_ok(t)
       \/ \E e \in Errors : manager_new_err(t, e)
    /\ UNCHANGED <<aborted, metricVars>>

\* battery_manager_iter(ptr), manager.batteries() returning Ok.  No call of
\* this specification steps the iterator, and its enumeration is taken to
\* have found MaxBatteries batteries.
manager_iter_ok(t, ptr) ==
    /\ Manager_batteries_Ok(ptr, MaxBatteries)
    /\ last' = Call("battery_manager_iter", t, ptr, "none", NewIteratorHandle, NoError)
    /\ UNCHANGED slot

\* battery_manager_iter(ptr), manager.batteries() returning Err(e).
manager_iter_err(t, ptr, e) ==
    /\ Manager_batteries_Err(ptr)
    /\ slot' = set_last_error(slot, t, e)
    /\ last' = Call("battery_manager_iter", t, ptr, e, Null, NoError)

\* battery_manager_iter(NULL): assert!(!ptr.is_null()) panics.
manager_iter_null(t) ==
    /\ aborted' = TRUE
    /\ last' = Call("battery_manager_iter", t, Null, "none", Null, NoError)
    /\ UNCHANGED <<backend, manager, iter, slot>>

battery_manager_iter(t) ==
    /\ ~aborted
    /\ \/ manager_iter_null(t)
       \/ /\ \E ptr \in LiveManagers :
               \/ manager_iter_ok(t, ptr)
               \/ \E e \in Errors : manager_iter_err(t, ptr, e)
          /\ UNCHANGED aborted
    /\ UNCHANGED metricVars

\* battery_manager_free(ptr): nothing for NULL, else Box::from_raw(ptr) is
\* dropped.
manager_free(t, ptr) ==
    /\ IF ptr = Null
       THEN UNCHANGED <<backend, manager, iter>>
       ELSE drop_Manager(ptr)
    /\ last' = Call("battery_manager_free", t, ptr, "none", Null, NoError)
    /\ UNCHANGED slot

battery_manager_free(t) ==
    /\ ~aborted
    /\ \E ptr \in LiveManagers \cup {Null} : manager_free(t, ptr)
    /\ UNCHANGED <<aborted, metricVars>>

\* battery_iterator_free(ptr): nothing for NULL, else the iterator is dropped.
battery_iterator_free(t) ==
    /\ ~aborted
    /\ \E ptr \in LiveIterators \cup {Null} :
         /\ IF ptr = Null
            THEN UNCHANGED <<backend, manager, iter>>
            ELSE drop_Batteries(ptr)
         /\ last' = Call("battery_iterator_free", t, ptr, "none", Null, NoError)
    /\ UNCHANGED <<slot, aborted, metricVars>>

\* battery_last_error_message(): reads the calling thread's slot.
battery_last_error_message(t) ==
    /\ ~aborted
    /\ last' = Call("battery_last_error_message", t, Null, "none", Null, slot[t])
    /\ UNCHANGED <<backend, manager, iter, slot, aborted, metricVars>>

----------------------------------------------------------------------------
(* Spec: the foreign boundary, called from two threads.                    *)

NoCall == Call("none", "nobody", Null, "none", Null, NoError)

InitHandles ==
    /\ backend = [b \in ManagerIds |-> NoBackend]
    /\ manager = [h \in ManagerIds |-> NoManager]
    /\ iter = [i \in IteratorIds |-> NoIterator]
    /\ slot = [t \in Threads |-> NoError]
    /\ last = NoCall
    /\ aborted = FALSE

InitMetrics ==
    /\ soh = NotCalled
    /\ soc = NotCalled
    /\ ttf = NotCalled
    /\ tte = NotCalled

InitDevice ==
    dev = [energy |-> WattHour(40), energy_full |-> WattHour(50),
           energy_full_design |-> WattHour(50), energy_rate |-> 5,
           state |-> "Charging"]

Init == InitHandles /\ InitMetrics /\ InitDevice

Next ==
    \E t \in Threads :
        \/ battery_manager_new(t)
        \/ battery_manager_iter(t)
        \/ battery_manager_free(t)
        \/ battery_iterator_free(t)
        \/ battery_last_error_message(t)

Spec == Init /\ [][Next]_vars

----------------------------------------------------------------------------
(* FacadeSpec: the facade used natively (Rc keeps it on one thread):       *)
(* managers made and dropped, iterators spawned, stepped and dropped.      *)

FacadeNew ==
    /\ Manager_new_Ok \/ Manager_new_Err
    /\ UNCHANGED <<slot, last, aborted, metricVars>>

FacadeBatteries ==
    /\ \E h \in LiveManagers :
         \/ \E n \in 0..MaxBatteries : Manager_batteries_Ok(h, n)
         \/ Manager_batteries_Err(h)
    /\ UNCHANGED <<slot, last, aborted, metricVars>>

FacadeNext ==
    /\ \E i \in LiveIterators : Batteries_next(i)
    /\ UNCHANGED <<slot, last, aborted, metricVars>>

FacadeDropManager ==
    /\ \E h \in LiveManagers : drop_Manager(h)
    /\ UNCHANGED <<slot, last, aborted, metricVars>>

FacadeDropBatteries ==
    /\ \E i \in LiveIterators : drop_Batteries(i)
    /\ UNCHANGED <<slot, last, aborted, metricVars>>

FacadeNextStep ==
    \/ FacadeNew
    \/ FacadeBatteries
    \/ FacadeNext
    \/ FacadeDropManager
    \/ FacadeDropBatteries

FacadeSpec == Init /\ [][FacadeNextStep]_vars

----------------------------------------------------------------------------
(* MetricsSpec: any snapshot, then the four metrics computed from it in    *)
(* any order.                                                              *)

StateOfHealth ==
    /\ soh' = state_of_health(dev)
    /\ UNCHANGED <<dev, soc, ttf, tte, handleVars>>

StateOfCharge ==
    /\ soc' = state_of_charge(dev)
    /\ UNCHANGED <<dev, soh, ttf, tte, handleVars>>

TimeToFull ==
    /\ ttf' = time_to_full(dev)
    /\ UNCHANGED <<dev, soh, soc, tte, handleVars>>

TimeToEmpty ==
    /\ tte' = time_to_empty(dev)
    /\ UNCHANGED <<dev, soh, soc, ttf, handleVars>>

MetricsInit == InitHandles /\ InitMetrics /\ dev \in Devices

MetricsNext ==
    \/ StateOfHealth
    \/ StateOfCharge
    \/ TimeToFull
    \/ TimeToEmpty

MetricsSpec == MetricsInit /\ [][MetricsNext]_vars

----------------------------------------------------------------------------
(* The derived metrics, under MetricsSpec.                                 *)

\* A ratio inside the closed range [0.0, 1.0].
InUnitRange(r) == r.kind = "fin" /\ 0 <= r.num /\ r.num <= r.den

\* C1: for every Device snapshot, state_of_health and state_of_charge both
\* return a ratio inside [0.0, 1.0].
C1_RatiosInUnitRange ==
    /\ soh # NotCalled => InUnitRange(soh)
    /\ soc # NotCalled => InUnitRange(soc)

\* left / rate is more than `seconds` (rate # 0), by cross-multiplication.
QuotientExceeds(left, rate, seconds) ==
    IF rate > 0 THEN left > seconds * rate ELSE left < seconds * rate

\* The value of an estimate is exactly left / rate.
IsQuotient(estimate, left, rate) ==
    /\ estimate.tag = "Some"
    /\ estimate.val.kind = "fin"
    /\ estimate.val.num * rate = left * estimate.val.den

\* C2: time_to_full is None whenever state is not Charging, or energy_rate is
\* 0, or energy_full < energy, or (energy_full - energy) / energy_rate is more
\* than 10 hours; in every other case it is exactly
\* (energy_full - energy) / energy_rate.
C2_TimeToFull ==
    ttf # NotCalled =>
        LET left == dev.energy_full - dev.energy
            rate == dev.energy_rate
        IN  IF \/ dev.state # "Charging"
               \/ rate = 0
               \/ dev.energy_full < dev.energy
               \/ QuotientExceeds(left, rate, 10 * 3600)
            THEN ttf = None
            ELSE IsQuotient(ttf, left, rate)

\* 50 Wh full, 40 Wh now, charging at 5 W: two hours.
C2_Witness ==
    /\ dev.state = "Charging"
    /\ dev.energy_full = 50 * 3600
    /\ dev.energy = 40 * 3600
    /\ dev.energy_rate = 5
    /\ ttf = Some([kind |-> "fin", num |-> 2 * 3600, den |-> 1])

\* C3: time_to_empty is None whenever state is not Discharging, or energy_rate
\* is 0, or energy / energy_rate is more than 10 days; in every other case it
\* is exactly energy / energy_rate.
C3_TimeToEmpty ==
    tte # NotCalled =>
        LET rate == dev.energy_rate
        IN  IF \/ dev.state # "Discharging"
               \/ rate = 0
               \/ QuotientExceeds(dev.energy, rate, 10 * 24 * 3600)
            THEN tte = None
            ELSE IsQuotient(tte, dev.energy, rate)

\* 20 Wh now, discharging at 2 W: ten hours.
C3_Witness ==
    /\ dev.state = "Discharging"
    /\ dev.energy = 20 * 3600
    /\ dev.energy_rate = 2
    /\ tte = Some([kind |-> "fin", num |-> 10 * 3600, den |-> 1])

\* A time of at least 0 and at most `seconds`.
WithinSeconds(t, seconds) ==
    t.kind = "fin" /\ 0 <= t.num /\ t.num <= seconds * t.den

\* C10: whenever time_to_full returns a value it lies in [0, 10 hours], and
\* whenever time_to_empty returns a value it lies in [0, 10 days].
C10_EstimatesNeverNegative ==
    /\ ttf.tag = "Some" => WithinSeconds(ttf.val, 10 * 3600)
    /\ tte.tag = "Some" => WithinSeconds(tte.val, 10 * 24 * 3600)

----------------------------------------------------------------------------
(* Shared ownership of the backend manager, under FacadeSpec.              *)

\* The holders of backend manager b: the facade Manager wrapping it, while it
\* lives, and every live iterator spawned from it.
Holders(b) ==
    Cardinality({h \in LiveManagers : manager[h].inner = b})
        + Cardinality({i \in LiveIterators : iter[i].manager = b})

\* C4: the backend Manager of a facade Manager is not destroyed while an
\* Iterator spawned from that Manager is alive, even when the facade Manager
\* has been released; every such Iterator holds a counted reference to it.
C4_BackendOutlivesIterators ==
    \A i \in LiveIterators :
        LET b == iter[i].manager
        IN  /\ backend[b].state = "alive"
            /\ backend[b].strong >= 1
            /\ backend[b].strong = Holders(b)

\* An iterator alive after the Manager it came from was dropped.
C4_Witness ==
    \E i \in LiveIterators :
        /\ \A h \in LiveManagers : manager[h].inner # iter[i].manager
        /\ manager[iter[i].manager].state = "freed"
        /\ backend[iter[i].manager].state = "alive"

\* C5: two batteries() calls on one Manager give two independent sequences:
\* each call builds a new iterator, at its start, from a new counted reference
\* to the Manager's backend, and a step that changes one iterator (creating,
\* stepping, exhausting or dropping it) leaves every other live iterator's
\* position and remaining items as they were.
C5_Step ==
    /\ \A i, j \in IteratorIds :
         (i # j /\ iter[j].state = "live" /\ iter'[i] # iter[i])
             => iter'[j] = iter[j]
    /\ \A i \in IteratorIds :
         (iter[i].state = "unused" /\ iter'[i].state = "live")
             => /\ iter'[i].pos = 0
                /\ \E h \in LiveManagers : manager[h].inner = iter'[i].manager
                /\ backend'[iter'[i].manager].strong
                       = backend[iter'[i].manager].strong + 1

C5_IndependentSequences == [][C5_Step]_vars

\* Two iterators of one Manager, one exhausted and the other not yet stepped.
C5_Witness ==
    \E i, j \in LiveIterators :
        /\ i # j
        /\ iter[i].manager = iter[j].manager
        /\ iter[i].len > 0 /\ iter[i].pos = iter[i].len
        /\ iter[j].len > 0 /\ iter[j].pos = 0

----------------------------------------------------------------------------
(* The foreign boundary, under Spec.                                       *)

\* C6: battery_manager_new, and battery_manager_iter on a non-null Manager
\* handle: when the facade call fails the call returns NULL, allocates no
\* handle and leaves the error in the calling thread's slot, which is then
\* non-empty; when it succeeds the call returns a non-null handle to exactly
\* one new object.  The Manager handle given to battery_manager_iter stays
\* valid either way.
C6_Step ==
    LET c == last'
    IN  /\ c.op = "battery_manager_new" =>
              IF c.err # "none"
              THEN /\ c.ret = Null
                   /\ manager' = manager /\ iter' = iter /\ backend' = backend
                   /\ slot'[c.thread] = Message(c.thread, c.err)
                   /\ slot'[c.thread] # NoError
              ELSE /\ c.ret # Null
                   /\ c.ret \in UnusedManagers
                   /\ manager'[c.ret].state = "live"
                   /\ \A h \in ManagerIds \ {c.ret} : manager'[h] = manager[h]
                   /\ iter' = iter
        /\ (c.op = "battery_manager_iter" /\ c.arg # Null) =>
              /\ manager[c.arg].state = "live"
              /\ manager' = manager
              /\ backend'[manager[c.arg].inner].state = "alive"
              /\ IF c.err # "none"
                 THEN /\ c.ret = Null
                      /\ iter' = iter /\ backend' = backend
                      /\ slot'[c.thread] = Message(c.thread, c.err)
                      /\ slot'[c.thread] # NoError
                 ELSE /\ c.ret # Null
                      /\ c.ret \in UnusedIterators
                      /\ iter'[c.ret].state = "live"
                      /\ \A i \in IteratorIds \ {c.ret} : iter'[i] = iter[i]

C6_ConstructionCalls == [][C6_Step]_vars

\* battery_manager_iter has failed on a live Manager: NULL, the error in the
\* caller's slot, the Manager still live.
C6_Witness ==
    /\ last.op = "battery_manager_iter"
    /\ last.arg # Null
    /\ last.err # "none"
    /\ last.ret = Null
    /\ slot[last.thread] = Message(last.thread, last.err)
    /\ manager[last.arg].state = "live"

\* C7: the last-error slot is per thread: a failing call on thread A changes
\* only thread A's slot, and last_error_message on thread B never returns a
\* message produced by a call made on thread A.
C7_Slots ==
    /\ \A t \in Threads : slot[t].by \in {t, "nobody"}
    /\ last.op = "battery_last_error_message"
           => last.msg.by \in {last.thread, "nobody"}

C7_Step ==
    \A t \in Threads :
        slot'[t] # slot[t] => (last'.thread = t /\ last'.err # "none")

C7_ThreadScopedSlot == []C7_Slots /\ [][C7_Step]_vars

\* Thread A's slot holds an error while thread B reads its own, empty, slot.
C7_Witness ==
    /\ slot["A"] # NoError
    /\ last.op = "battery_last_error_message"
    /\ last.thread = "B"
    /\ last.msg = NoError

\* C8: a thread's slot changes only when a call made by that thread fails,
\* and then to that call's error; last_error_message returns the slot's
\* message and does not clear it; successful battery_manager_new and
\* battery_manager_iter calls and battery_manager_free leave every slot
\* unchanged.
C8_Step ==
    /\ \A t \in Threads :
         slot'[t] # slot[t]
             => /\ last'.thread = t
                /\ last'.err # "none"
                /\ slot'[t] = Message(t, last'.err)
    /\ last'.op = "battery_last_error_message"
           => (last'.msg = slot[last'.thread] /\ slot' = slot)
    /\ last'.err = "none" => slot' = slot

C8_SlotLifecycle == [][C8_Step]_vars

\* A Manager handle was freed by a thread whose slot still holds the error of
\* an earlier failed call.
C8_Witness ==
    /\ last.op = "battery_manager_free"
    /\ last.arg # Null
    /\ slot[last.thread] # NoError

\* C9: battery_manager_free(NULL) changes nothing: no handle, no reference
\* count, no slot.  battery_manager_free on a live Manager handle releases
\* that handle and its one reference to its backend Manager, and nothing
\* else.
C9_Step ==
    LET c == last'
    IN  c.op = "battery_manager_free" =>
            IF c.arg = Null
            THEN /\ manager' = manager /\ iter' = iter /\ backend' = backend
                 /\ slot' = slot /\ aborted' = aborted
            ELSE LET b == manager[c.arg].inner
                 IN  /\ manager[c.arg].state = "live"
                     /\ manager'[c.arg].state = "freed"
                     /\ \A h \in ManagerIds \ {c.arg} : manager'[h] = manager[h]
                     /\ iter' = iter /\ slot' = slot /\ aborted' = aborted
                     /\ backend'[b].strong = backend[b].strong - 1
                     /\ backend'[b].state =
                            IF backend[b].strong = 1 THEN "dropped" ELSE "alive"
                     /\ \A x \in ManagerIds \ {b} : backend'[x] = backend[x]

C9_ManagerFree == [][C9_Step]_vars

\* battery_manager_free(NULL) was called while handles are live and the
\* caller's slot holds an error.
C9_Witness ==
    /\ last.op = "battery_manager_free"
    /\ last.arg = Null
    /\ LiveManagers # {}
    /\ LiveIterators # {}
    /\ slot[last.thread] # NoError

====
